---- MODULE Spec2Model ----
(***************************************************************************)
(* A model of planet_bridge.py: the upstream payload, the row normalizer   *)
(* planet_dataframe and the four handlers that call it (planet_json,       *)
(* planet_csv, planet_default, history).  One behaviour is one request, or *)
(* a JSON export followed by a request on that export as the payload.      *)
(*                                                                         *)
(* Representation.                                                         *)
(*   - a text is a sequence of one-character strings, so that strip,       *)
(*     lower, date parsing, number parsing and strftime are computed;      *)
(*   - a JSON scalar is a record [kind, n, s]: kind "null", "num" (n) or   *)
(*     "str" (s).  NaN, NaT and None are all the "null" value, as pandas'  *)
(*     isna treats them alike;                                             *)
(*   - a number n stands for n/10 (one decimal place), so that "1.5" and   *)
(*     "10" are both representable;                                        *)
(*   - a JSON object is a sequence of [k, v] pairs in key order;           *)
(*   - a DataFrame is [columns, data]: the column labels in order and the  *)
(*     rows, each a sequence of cells aligned with the labels.             *)
(***************************************************************************)
EXTENDS Integers, Sequences, FiniteSets

(* The largest number of rows in an upstream payload. *)
MaxRows == 2

----------------------------------------------------------------------------
(* JSON scalars *)

Null == [kind |-> "null", n |-> 0, s |-> <<>>]
Num(x) == [kind |-> "num", n |-> x, s |-> <<>>]
Str(t) == [kind |-> "str", n |-> 0, s |-> t]

IsNa(v) == v.kind = "null"

----------------------------------------------------------------------------
(* Text helpers: str.strip, str.lower, digits *)

IsSpace(c) == c \in {" "}

RECURSIVE LStrip(_)
LStrip(t) ==
    IF t = <<>> THEN t
    ELSE IF IsSpace(Head(t)) THEN LStrip(Tail(t)) ELSE t

RECURSIVE RStrip(_)
RStrip(t) ==
    IF t = <<>> THEN t
    ELSE IF IsSpace(t[Len(t)]) THEN RStrip(SubSeq(t, 1, Len(t) - 1)) ELSE t

(* c.strip() *)
Strip(t) == RStrip(LStrip(t))

LowerChar(c) ==
    CASE c = "D" -> "d"
      [] c = "O" -> "o"
      [] c = "H" -> "h"
      [] c = "L" -> "l"
      [] c = "C" -> "c"
      [] OTHER -> c

(* col.lower() *)
Lower(t) == [i \in DOMAIN t |-> LowerChar(t[i])]

DigitChars == <<"0", "1", "2", "3", "4", "5", "6", "7", "8", "9">>

IsDigit(c) == \E i \in DOMAIN DigitChars : DigitChars[i] = c

DigitVal(c) == (CHOOSE i \in DOMAIN DigitChars : DigitChars[i] = c) - 1

IsDigits(t) == t # <<>> /\ \A i \in DOMAIN t : IsDigit(t[i])

RECURSIVE ParseInt(_)
ParseInt(t) ==
    IF t = <<>> THEN 0
    ELSE 10 * ParseInt(SubSeq(t, 1, Len(t) - 1)) + DigitVal(t[Len(t)])

RECURSIVE Pad(_, _)
(* the decimal digits of x >= 0, zero-padded to width w (%Y, %m, %d) *)
Pad(x, w) ==
    IF w = 0 THEN <<>>
    ELSE Append(Pad(x \div 10, w - 1), DigitChars[(x % 10) + 1])

(* ord(c) for the characters a date text is made of: '-' < '/' < '0' < ... < '9' *)
Ord(c) ==
    CASE IsDigit(c) -> 48 + DigitVal(c)
      [] c = "-" -> 45
      [] c = "/" -> 47

RECURSIVE StrLt(_, _)
(* Python's a < b on str *)
StrLt(a, b) ==
    IF b = <<>> THEN FALSE
    ELSE IF a = <<>> THEN TRUE
    ELSE IF Ord(Head(a)) # Ord(Head(b)) THEN Ord(Head(a)) < Ord(Head(b))
    ELSE StrLt(Tail(a), Tail(b))

StrLe(a, b) == a = b \/ StrLt(a, b)

----------------------------------------------------------------------------
(* pd.to_numeric(..., errors='coerce') on one cell *)

(* [sign] digits [ "." digit ]  as a number of tenths; the texts of the    *)
(* model carry at most one decimal place.                                  *)
IsDecimal(t) ==
    LET u == IF t # <<>> /\ Head(t) = "-" THEN Tail(t) ELSE t
        dot == {i \in DOMAIN u : u[i] = "."}
    IN  \/ IsDigits(u)
        \/ /\ dot = {Len(u) - 1}
           /\ IsDigits(SubSeq(u, 1, Len(u) - 2))
           /\ IsDigit(u[Len(u)])

ParseDecimal(t) ==
    LET neg == t # <<>> /\ Head(t) = "-"
        u == IF neg THEN Tail(t) ELSE t
        mag == IF IsDigits(u) THEN 10 * ParseInt(u)
               ELSE 10 * ParseInt(SubSeq(u, 1, Len(u) - 2)) + DigitVal(u[Len(u)])
    IN  IF neg THEN 0 - mag ELSE mag

ToNumeric(v) ==
    CASE v.kind = "num" -> v
      [] v.kind = "str" -> IF IsDecimal(Strip(v.s)) THEN Num(ParseDecimal(Strip(v.s))) ELSE Null
      [] OTHER -> Null

----------------------------------------------------------------------------
(* Calendar: what pd.to_datetime, .dt.strftime("%Y-%m-%d") and             *)
(* astype("int64") // 10**9 compute                                        *)

NaT == [ok |-> FALSE, y |-> 0, m |-> 0, d |-> 0]
Day(y, m, d) == [ok |-> TRUE, y |-> y, m |-> m, d |-> d]

IsLeap(y) == (y % 4 = 0 /\ y % 100 # 0) \/ y % 400 = 0

DaysInMonth(y, m) ==
    CASE m \in {1, 3, 5, 7, 8, 10, 12} -> 31
      [] m \in {4, 6, 9, 11} -> 30
      [] OTHER -> IF IsLeap(y) THEN 29 ELSE 28

(* days since 1970-01-01 of the proleptic Gregorian date y-m-d *)
DaysFromCivil(y, m, d) ==
    LET yy == IF m <= 2 THEN y - 1 ELSE y
        era == yy \div 400
        yoe == yy - era * 400
        mp == IF m > 2 THEN m - 3 ELSE m + 9
        doy == (153 * mp + 2) \div 5 + d - 1
        doe == yoe * 365 + yoe \div 4 - yoe \div 100 + doy
    IN  era * 146097 + doe - 719468

(* Timestamp.min and Timestamp.max: a datetime64[ns] holds the days       *)
(* 1677-09-22 .. 2262-04-11; errors='coerce' turns the others into NaT    *)
InBounds(y, m, d) ==
    /\ DaysFromCivil(1677, 9, 22) <= DaysFromCivil(y, m, d)
    /\ DaysFromCivil(y, m, d) <= DaysFromCivil(2262, 4, 11)

Civil(y, m, d) ==
    IF m \in 1..12 /\ d >= 1 /\ d <= DaysInMonth(y, m) /\ InBounds(y, m, d)
    THEN Day(y, m, d) ELSE NaT

(* The two layouts of a date text the model's payloads use: YYYY-MM-DD,   *)
(* and MM/DD/YYYY, which dayfirst=False reads month first.                 *)
FormatOf(t) ==
    IF Len(t) # 10 THEN "none"
    ELSE IF /\ t[5] = "-" /\ t[8] = "-"
            /\ IsDigits(SubSeq(t, 1, 4)) /\ IsDigits(SubSeq(t, 6, 7))
            /\ IsDigits(SubSeq(t, 9, 10))
         THEN "iso"
    ELSE IF /\ t[3] = "/" /\ t[6] = "/"
            /\ IsDigits(SubSeq(t, 1, 2)) /\ IsDigits(SubSeq(t, 4, 5))
            /\ IsDigits(SubSeq(t, 7, 10))
         THEN "us"
    ELSE "none"

ParseDate(t) ==
    CASE FormatOf(t) = "iso" ->
            Civil(ParseInt(SubSeq(t, 1, 4)), ParseInt(SubSeq(t, 6, 7)),
                  ParseInt(SubSeq(t, 9, 10)))
      [] FormatOf(t) = "us" ->
            Civil(ParseInt(SubSeq(t, 7, 10)), ParseInt(SubSeq(t, 1, 2)),
                  ParseInt(SubSeq(t, 4, 5)))
      [] OTHER -> NaT

(* A number is read as nanoseconds since the epoch; every number the      *)
(* model can hold is less than a day away from it.                         *)
ParseEpoch(x) == IF x >= 0 THEN Day(1970, 1, 1) ELSE Day(1969, 12, 31)

(* the text of the first element of a column that is a text, <<>> if none *)
FirstText(col) ==
    LET idx == {i \in DOMAIN col : col[i].kind = "str"}
    IN  IF idx = {} THEN <<>>
        ELSE col[CHOOSE i \in idx : \A j \in idx : i <= j].s

(* one element under errors='coerce'; fmt is the format the column was    *)
(* found to have, "none" when each element is parsed on its own            *)
ToDatetime(v, fmt) ==
    CASE v.kind = "str" ->
            IF fmt # "none" /\ FormatOf(v.s) # fmt THEN NaT ELSE ParseDate(v.s)
      [] v.kind = "num" -> ParseEpoch(v.n)
      [] OTHER -> NaT

(* pd.to_datetime(column, dayfirst=False, errors='coerce').  guess_format *)
(* is TRUE for a pandas (2.0 and later) that guesses one format from the  *)
(* first text of the column and coerces the texts of another layout to    *)
(* NaT, FALSE for a pandas that parses each element on its own.  When no  *)
(* format can be guessed every element is parsed on its own.  The column  *)
(* is datetime64[ns].                                                      *)
ToDatetimeColumn(col, guess_format) ==
    LET fmt == IF guess_format THEN FormatOf(FirstText(col)) ELSE "none"
    IN  [i \in DOMAIN col |-> ToDatetime(col[i], fmt)]

(* Strftime with "%Y-%d-%m": day and month swapped *)
StrftimeDayFirst(ts) ==
    IF ts.ok THEN Str(Pad(ts.y, 4) \o <<"-">> \o Pad(ts.d, 2) \o <<"-">> \o Pad(ts.m, 2))
    ELSE Null

(* .dt.strftime("%Y-%m-%d"): NaT stays missing *)
Strftime(ts) ==
    IF ts.ok THEN Str(Pad(ts.y, 4) \o <<"-">> \o Pad(ts.m, 2) \o <<"-">> \o Pad(ts.d, 2))
    ELSE Null

(* astype("int64") // 10**9: seconds since the epoch of the day's midnight *)
UnixSeconds(ts) == DaysFromCivil(ts.y, ts.m, ts.d) * (24 * 60 * 60)

----------------------------------------------------------------------------
(* DataFrame *)

DATE == <<"D", "a", "t", "e">>
OPEN == <<"O", "p", "e", "n">>
HIGH == <<"H", "i", "g", "h">>
LOW == <<"L", "o", "w">>
CLOSE == <<"C", "l", "o", "s", "e">>

(* ["Open","High","Low","Close"], the list the loop of line 35 walks *)
OHLC == <<OPEN, HIGH, LOW, CLOSE>>

HasKey(row, key) == \E i \in DOMAIN row : row[i].k = key

(* the cell of a row under a key; a key the row lacks is NaN *)
Cell(row, key) ==
    IF HasKey(row, key) THEN row[CHOOSE i \in DOMAIN row : row[i].k = key].v
    ELSE Null

RECURSIVE KeysOf(_, _)
(* the keys of a row appended to the labels seen, in order of appearance *)
KeysOf(row, seen) ==
    IF row = <<>> THEN seen
    ELSE KeysOf(Tail(row),
                IF \E i \in DOMAIN seen : seen[i] = Head(row).k THEN seen
                ELSE Append(seen, Head(row).k))

RECURSIVE UnionKeys(_, _)
UnionKeys(data, seen) ==
    IF data = <<>> THEN seen
    ELSE UnionKeys(Tail(data), KeysOf(Head(data), seen))

(* pd.DataFrame(data): one column per key that occurs in some row *)
DataFrame(data) ==
    LET cols == UnionKeys(data, <<>>)
    IN  [columns |-> cols,
         data |-> [r \in DOMAIN data |-> [c \in DOMAIN cols |-> Cell(data[r], cols[c])]]]

(* c in df.columns, and the positions that carry the label c *)
Positions(df, c) == {i \in DOMAIN df.columns : df.columns[i] = c}
HasColumn(df, c) == Positions(df, c) # {}

(* df.columns = [c.strip() for c in df.columns] *)
StripColumns(df) ==
    [df EXCEPT !.columns = [i \in DOMAIN df.columns |-> Strip(df.columns[i])]]

(* df.rename(columns={old: new}, inplace=True): every column labelled old *)
Rename(df, old, new) ==
    [df EXCEPT !.columns =
        [i \in DOMAIN df.columns |-> IF df.columns[i] = old THEN new ELSE df.columns[i]]]

(* df[c] as a Series: the cells of the one column labelled c *)
Column(df, c) ==
    LET p == CHOOSE i \in Positions(df, c) : TRUE
    IN  [r \in DOMAIN df.data |-> df.data[r][p]]

(* df[c] = series, for a column that exists once *)
SetColumn(df, c, series) ==
    LET p == CHOOSE i \in Positions(df, c) : TRUE
    IN  [df EXCEPT !.data =
            [r \in DOMAIN df.data |-> [df.data[r] EXCEPT ![p] = series[r]]]]

(* df[c] = None, for a column that does not exist: appended *)
AddColumn(df, c) ==
    [columns |-> Append(df.columns, c),
     data |-> [r \in DOMAIN df.data |-> Append(df.data[r], Null)]]

----------------------------------------------------------------------------
(* planet_dataframe, line by line *)

(* EnsureDate that merges the two spellings: where both columns exist, a  *)
(* row without a Date takes its date                                       *)
EnsureDateMerged(df) ==
    IF HasColumn(df, DATE) /\ HasColumn(df, Lower(DATE))
    THEN SetColumn(df, DATE,
            [r \in DOMAIN df.data |->
                IF IsNa(Column(df, DATE)[r]) THEN Column(df, Lower(DATE))[r]
                ELSE Column(df, DATE)[r]])
    ELSE IF HasColumn(df, Lower(DATE)) THEN Rename(df, Lower(DATE), DATE) ELSE df

(* lines 30-31 *)
EnsureDate(df) ==
    IF ~HasColumn(df, DATE) /\ HasColumn(df, Lower(DATE))
    THEN Rename(df, Lower(DATE), DATE) ELSE df

(* What df["Date"] raises at line 33: KeyError when no column carries the *)
(* label; with the label on two columns df["Date"] is a DataFrame, which  *)
(* pd.to_datetime refuses with ValueError.                                 *)
DateRaises(df) ==
    CASE Cardinality(Positions(df, DATE)) = 0 -> "KeyError"
      [] Cardinality(Positions(df, DATE)) > 1 -> "ValueError"
      [] OTHER -> ""

(* line 33 *)
ConvertDate(df, guess_format) ==
    LET ts == ToDatetimeColumn(Column(df, DATE), guess_format)
    IN  SetColumn(df, DATE, [r \in DOMAIN ts |-> Strftime(ts[r])])

(* EnsureColumn without the lowercase fallback of lines 38-39 *)
EnsureColumnCanonicalOnly(df, col) ==
    IF ~HasColumn(df, col) THEN AddColumn(df, col) ELSE df

(* lines 36-42 *)
EnsureColumn(df, col) ==
    LET renamed == IF ~HasColumn(df, col) /\ HasColumn(df, Lower(col))
                   THEN Rename(df, Lower(col), col) ELSE df
    IN  IF ~HasColumn(renamed, col) THEN AddColumn(renamed, col) ELSE renamed

(* What pd.to_numeric(df[col]) raises at line 43: with the label on two   *)
(* columns df[col] is a DataFrame, which pd.to_numeric refuses.            *)
NumericRaises(df, col) ==
    IF Cardinality(Positions(df, col)) > 1 THEN "TypeError" ELSE ""

(* line 43 *)
CoerceColumn(df, col) ==
    LET series == Column(df, col)
    IN  SetColumn(df, col, [r \in DOMAIN series |-> ToNumeric(series[r])])

RECURSIVE NumericLoop(_, _)
(* lines 35-43: the loop over the columns left to do; stops at a raise *)
NumericLoop(df, cols) ==
    IF cols = <<>> THEN [exc |-> "", df |-> df]
    ELSE LET ensured == EnsureColumn(df, Head(cols))
         IN  IF NumericRaises(ensured, Head(cols)) # ""
             THEN [exc |-> NumericRaises(ensured, Head(cols)), df |-> ensured]
             ELSE NumericLoop(CoerceColumn(ensured, Head(cols)), Tail(cols))

(* Dropna with subset=["Date"]: Close is not required *)
DropnaDateOnly(df) ==
    LET keep(row) == ~IsNa(row[CHOOSE i \in Positions(df, DATE) : TRUE])
    IN  [df EXCEPT !.data = SelectSeq(df.data, keep)]

(* Dropna without subset: a missing value in any column drops the row *)
DropnaAnyColumn(df) ==
    LET keep(row) == \A i \in DOMAIN row : ~IsNa(row[i])
    IN  [df EXCEPT !.data = SelectSeq(df.data, keep)]

(* line 46: df.dropna(subset=["Date","Close"]) *)
Dropna(df) ==
    LET keep(row) == /\ ~IsNa(row[CHOOSE i \in Positions(df, DATE) : TRUE])
                     /\ ~IsNa(row[CHOOSE i \in Positions(df, CLOSE) : TRUE])
    IN  [df EXCEPT !.data = SelectSeq(df.data, keep)]

(* line 47: df[["Date","Open","High","Low","Close"]], as records *)
Project(df) ==
    LET at(row, c) == row[CHOOSE i \in Positions(df, c) : TRUE]
    IN  [r \in DOMAIN df.data |->
            [Date |-> at(df.data[r], DATE), Open |-> at(df.data[r], OPEN),
             High |-> at(df.data[r], HIGH), Low |-> at(df.data[r], LOW),
             Close |-> at(df.data[r], CLOSE)]]

Orders(n) == {p \in [1..n -> 1..n] : \A i, j \in 1..n : p[i] = p[j] => i = j}

IsSortedByDate(recs) ==
    \A i \in 1..(Len(recs) - 1) : StrLe(recs[i].Date.s, recs[i + 1].Date.s)

(* SortValues left out: the rows stay in payload order *)
SortValuesSkipped(recs) == {recs}

(* SortValues followed by drop_duplicates(subset="Date"): one row per date *)
SortValuesDeduplicated(recs) ==
    LET first == {i \in DOMAIN recs : \A j \in 1..(i - 1) : recs[j].Date # recs[i].Date}
        nth(k) == CHOOSE i \in first : Cardinality({j \in first : j <= i}) = k
        uniq == [k \in 1..Cardinality(first) |-> recs[nth(k)]]
    IN  {o \in {[i \in DOMAIN uniq |-> uniq[p[i]]] : p \in Orders(Len(uniq))} :
            IsSortedByDate(o)}

(* line 49: df.sort_values(by="Date").reset_index(drop=True).  The        *)
(* default kind is "quicksort", which pandas documents as not stable: the *)
(* rows come out in non-descending order of Date and rows with equal      *)
(* dates in an order the call does not fix (an implementation may keep    *)
(* the ties of a short column in place; the call does not promise it).    *)
(* The set of the orders it may return.                                    *)
SortValues(recs) ==
    {out \in {[i \in DOMAIN recs |-> recs[p[i]]] : p \in Orders(Len(recs))} :
        IsSortedByDate(out)}

(* lines 26-47: the frame before the sort, or what was raised *)
Normalize(rows, guess_format) ==
    LET df == EnsureDate(StripColumns(DataFrame(rows)))
    IN  IF DateRaises(df) # "" THEN [exc |-> DateRaises(df), records |-> <<>>]
        ELSE LET num == NumericLoop(ConvertDate(df, guess_format), OHLC)
             IN  IF num.exc # "" THEN [exc |-> num.exc, records |-> <<>>]
                 ELSE [exc |-> "", records |-> Project(Dropna(num.df))]

(* lines 14-19: what fetch_planet_json raises for an upstream that does   *)
(* not answer, answers with an error status or with a body that is not    *)
(* JSON                                                                     *)
FetchRaises(up) == IF up.kind = "unreachable" THEN "RequestException" ELSE ""

(* The pandas the service runs with is not pinned: it may or may not      *)
(* guess one date format per column (see ToDatetimeColumn).                *)
Builds == BOOLEAN

(* lines 26-50 on a list of rows: the outcomes the call may have *)
Outcomes(rows) ==
    UNION {LET n == Normalize(rows, g)
           IN  IF n.exc # "" THEN {n}
               ELSE {[exc |-> "", records |-> o] : o \in SortValues(n.records)} :
           g \in Builds}

(* PlanetDataframe without the guard of lines 24-25 *)
PlanetDataframeUnguarded(up) ==
    IF FetchRaises(up) # "" THEN {[exc |-> FetchRaises(up), records |-> <<>>]}
    ELSE Outcomes(up.rows)

(* planet_dataframe: the outcomes the call may have, each [exc, records]  *)
PlanetDataframe(up) ==
    IF FetchRaises(up) # "" THEN {[exc |-> FetchRaises(up), records |-> <<>>]}
    ELSE IF up.kind # "list" \/ Len(up.rows) = 0 THEN {[exc |-> "", records |-> <<>>]}
    ELSE Outcomes(up.rows)

----------------------------------------------------------------------------
(* Integers beyond 32 bits: [hi, lo] is hi * 10^9 + lo, 0 <= lo < 10^9 *)

Giga == 1000 * 1000 * 1000

Big(x) == [hi |-> x \div Giga, lo |-> x % Giga]

BigLe(a, b) == a.hi < b.hi \/ (a.hi = b.hi /\ a.lo <= b.lo)

(* int(text) for a text of digits; the digits left of the last nine are hi *)
ParseBig(t) ==
    IF Len(t) <= 9 THEN [hi |-> 0, lo |-> ParseInt(t)]
    ELSE [hi |-> ParseInt(SubSeq(t, 1, Len(t) - 9)),
          lo |-> ParseInt(SubSeq(t, Len(t) - 8, Len(t)))]

(* request.args.get("from", "0") and request.args.get("to", "9999999999"); *)
(* an absent parameter is the empty text here                               *)
FromArg(arg) == IF arg = <<>> THEN <<"0">> ELSE arg
ToArg(arg) ==
    IF arg = <<>> THEN <<"9", "9", "9", "9", "9", "9", "9", "9", "9", "9">> ELSE arg

(* what int(...) raises at lines 113-114 *)
IntRaises(t) == IF IsDigits(t) THEN "" ELSE "ValueError"

----------------------------------------------------------------------------
(* The handlers' responses *)

Header == <<Str(DATE), Str(OPEN), Str(HIGH), Str(LOW), Str(CLOSE)>>

(* df.to_csv(index=False): the header line, then one line per record *)
ToCsv(recs) ==
    <<Header>> \o [i \in DOMAIN recs |->
        <<recs[i].Date, recs[i].Open, recs[i].High, recs[i].Low, recs[i].Close>>]

NoResponse ==
    [route |-> "", status |-> 0, json |-> <<>>, csv |-> <<>>, s |-> "",
     t |-> <<>>, o |-> <<>>, h |-> <<>>, l |-> <<>>, c |-> <<>>]

(* an exception no handler catches: Flask answers 500 *)
ServerError(route) == [NoResponse EXCEPT !.route = route, !.status = 500]

(* lines 56-57: jsonify(df.to_dict(orient="records")) *)
JsonResponse(route, out) ==
    IF out.exc # "" THEN ServerError(route)
    ELSE [NoResponse EXCEPT !.route = route, !.status = 200, !.json = out.records]

(* lines 63-65 *)
CsvResponse(route, out) ==
    IF out.exc # "" THEN ServerError(route)
    ELSE [NoResponse EXCEPT !.route = route, !.status = 200, !.csv = ToCsv(out.records)]

(* InRange with both bounds exclusive *)
InRangeExclusive(time, from_ts, to_ts) ==
    /\ BigLe(from_ts, Big(time)) /\ from_ts # Big(time)
    /\ BigLe(Big(time), to_ts) /\ to_ts # Big(time)

(* line 119: (df["time"] >= from_ts) & (df["time"] <= to_ts) *)
InRange(time, from_ts, to_ts) == BigLe(from_ts, Big(time)) /\ BigLe(Big(time), to_ts)

(* line 117: df["time"] *)
TimeOf(rec) == UnixSeconds(ParseDate(rec.Date.s))

(* lines 117-128 *)
HistoryResponse(out, from_ts, to_ts) ==
    IF out.exc # "" THEN ServerError("history")
    ELSE LET kept == SelectSeq(out.records, LAMBDA r : InRange(TimeOf(r), from_ts, to_ts))
         IN  [NoResponse EXCEPT
                !.route = "history", !.status = 200, !.s = "ok",
                !.t = [i \in DOMAIN kept |-> TimeOf(kept[i])],
                !.o = [i \in DOMAIN kept |-> kept[i].Open],
                !.h = [i \in DOMAIN kept |-> kept[i].High],
                !.l = [i \in DOMAIN kept |-> kept[i].Low],
                !.c = [i \in DOMAIN kept |-> kept[i].Close]]

----------------------------------------------------------------------------
(* The payloads the upstream may answer with *)

Pair(key, val) == [k |-> key, v |-> val]

Iso1994 == <<"1", "9", "9", "4", "-", "0", "1", "-", "0", "2">>
Us1994 == <<"0", "1", "/", "0", "2", "/", "1", "9", "9", "4">>
Iso1970 == <<"1", "9", "7", "0", "-", "0", "1", "-", "0", "1">>
BadDate == <<"b", "a", "d", "-", "d", "a", "t", "e">>

DateTexts == {Iso1994, Us1994, Iso1970, BadDate}

(* Rows under the canonical keys: the values vary.  Numbers are tenths. *)
ValueRows ==
    UNION {
        { <<Pair(DATE, Str(d)), Pair(OPEN, Str(<<"1", ".", "0">>)), Pair(HIGH, Num(20)),
            Pair(LOW, Str(<<"0", ".", "5">>)), Pair(CLOSE, Num(15))>>,
          <<Pair(DATE, Str(d)), Pair(OPEN, Str(<<"x">>)), Pair(LOW, Null),
            Pair(CLOSE, Str(<<"1", "0">>))>>,
          <<Pair(DATE, Str(d)), Pair(OPEN, Num(10)), Pair(CLOSE, Str(<<"x">>))>>,
          <<Pair(DATE, Str(d)), Pair(HIGH, Num(20)), Pair(CLOSE, Null)>> } : d \in DateTexts }

(* Rows with good values: the keys vary in case and padding. *)
DateParts ==
    { <<>>,
      <<Pair(DATE, Str(Iso1994))>>,
      <<Pair(Lower(DATE), Str(Iso1994))>>,
      <<Pair(Lower(DATE), Str(Iso1970))>>,
      <<Pair(<<" ">> \o DATE, Str(Iso1994))>> }

CloseParts ==
    { <<>>,
      <<Pair(OPEN, Num(10)), Pair(HIGH, Null), Pair(CLOSE, Num(15))>>,
      <<Pair(Lower(OPEN), Num(10)), Pair(Lower(HIGH), Str(<<"2", ".", "0">>)),
        Pair(Lower(LOW), Str(<<"x">>)), Pair(Lower(CLOSE), Str(<<"2", ".", "5">>))>>,
      <<Pair(CLOSE \o <<" ">>, Num(15))>> }

KeyRows == {d \o c : d \in DateParts, c \in CloseParts}

SeqsUpTo(S, n) == UNION {[1..k -> S] : k \in 0..n}

Payloads ==
    {[kind |-> "list", rows |-> rows] :
        rows \in SeqsUpTo(ValueRows, MaxRows) \cup SeqsUpTo(KeyRows, MaxRows)}
    \cup {[kind |-> k, rows |-> <<>>] : k \in {"object", "string", "number", "null", "unreachable"}}

(* The from and to parameters a /history request may carry; <<>> is absent. *)
(* T1994 is midnight of 1994-01-02 in seconds.                              *)
T1994 == <<"7", "5", "7", "4", "6", "8", "8", "0", "0">>
FromArgs == {<<>>, T1994, <<"x">>}
ToArgs == {<<>>, <<"0">>}

----------------------------------------------------------------------------
(* State *)

VARIABLES
    upstream,    \* the JSON the upstream answers with, or that it is unreachable
    pc,          \* "idle" before the request, "served" after it
    out,         \* what planet_dataframe returned or raised in the request
    args,        \* the from and to parameters of a /history request
    response,    \* the response of the request
    fed,         \* whether upstream is a response of this service, fed back
    previous     \* the records of the response that was fed back

vars == <<upstream, pc, out, args, response, fed, previous>>

NoOutcome == [exc |-> "", records |-> <<>>]
NoArgs == [from |-> <<>>, to |-> <<>>]

Init ==
    /\ upstream \in Payloads
    /\ pc = "idle"
    /\ out = NoOutcome
    /\ args = NoArgs
    /\ response = NoResponse
    /\ fed = FALSE
    /\ previous = <<>>

(* GET /planet/<name>.json *)
planet_json ==
    /\ pc = "idle"
    /\ \E o \in PlanetDataframe(upstream) :
          /\ out' = o
          /\ response' = JsonResponse("planet_json", o)
    /\ pc' = "served"
    /\ UNCHANGED <<upstream, args, fed, previous>>

(* GET /planet/<name>.csv *)
planet_csv ==
    /\ pc = "idle"
    /\ \E o \in PlanetDataframe(upstream) :
          /\ out' = o
          /\ response' = CsvResponse("planet_csv", o)
    /\ pc' = "served"
    /\ UNCHANGED <<upstream, args, fed, previous>>

(* GET /planet/<name>: return planet_json(planet_name) *)
planet_default ==
    /\ pc = "idle"
    /\ \E o \in PlanetDataframe(upstream) :
          /\ out' = o
          /\ response' = JsonResponse("planet_default", o)
    /\ pc' = "served"
    /\ UNCHANGED <<upstream, args, fed, previous>>

(* GET /history?symbol=..&resolution=..&from=..&to=..  The symbol only    *)
(* names the planet asked of the upstream and the resolution is not read. *)
history ==
    /\ pc = "idle"
    /\ \E f \in FromArgs, t \in ToArgs :
          /\ args' = [from |-> f, to |-> t]
          /\ IF IntRaises(FromArg(f)) # "" \/ IntRaises(ToArg(t)) # ""
             THEN /\ out' = NoOutcome
                  /\ response' = ServerError("history")
             ELSE \E o \in PlanetDataframe(upstream) :
                     /\ out' = o
                     /\ response' = HistoryResponse(o, ParseBig(FromArg(f)), ParseBig(ToArg(t)))
    /\ pc' = "served"
    /\ UNCHANGED <<upstream, fed, previous>>

(* the records of a JSON response as a payload: canonical keys, canonical *)
(* dates, numbers or nulls                                                 *)
AsPayload(recs) ==
    [kind |-> "list",
     rows |-> [i \in DOMAIN recs |->
        <<Pair(DATE, recs[i].Date), Pair(OPEN, recs[i].Open), Pair(HIGH, recs[i].High),
          Pair(LOW, recs[i].Low), Pair(CLOSE, recs[i].Close)>>]]

(* The environment: the JSON export of one request becomes the payload of *)
(* the next.                                                               *)
FeedBack ==
    /\ pc = "served"
    /\ ~fed
    /\ response.route = "planet_json"
    /\ response.status = 200
    /\ upstream' = AsPayload(response.json)
    /\ previous' = response.json
    /\ fed' = TRUE
    /\ pc' = "idle"
    /\ out' = NoOutcome
    /\ args' = NoArgs
    /\ response' = NoResponse

Next == planet_json \/ planet_csv \/ planet_default \/ history \/ FeedBack

Spec == Init /\ [][Next]_vars

----------------------------------------------------------------------------
(* What the claims speak of, read off the raw payload *)

Served == pc = "served"

(* the request ran planet_dataframe on a non-empty list of rows and it returned *)
Normalized ==
    /\ Served
    /\ response.status = 200
    /\ upstream.kind = "list"
    /\ Len(upstream.rows) > 0

Rows == upstream.rows

(* the keys of a row, trimmed *)
Labels(row) == {Strip(row[i].k) : i \in DOMAIN row}

(* the key a field is read under: the canonical one when some row carries *)
(* it, the lowercase one otherwise                                          *)
FieldKey(col) == IF \E i \in DOMAIN Rows : col \in Labels(Rows[i]) THEN col ELSE Lower(col)

(* the raw value of a row under a trimmed key *)
Under(row, key) ==
    IF \E i \in DOMAIN row : Strip(row[i].k) = key
    THEN row[CHOOSE i \in DOMAIN row : Strip(row[i].k) = key].v
    ELSE Null

(* What each input row reads as, under build g: its date parsed as the    *)
(* column of dates is parsed and written back as text, null when it does   *)
(* not parse, and its four numbers coerced, null when not a number.         *)
Reading(g) ==
    LET dateKey == FieldKey(DATE)
        openKey == FieldKey(OPEN)
        highKey == FieldKey(HIGH)
        lowKey == FieldKey(LOW)
        closeKey == FieldKey(CLOSE)
        dates == ToDatetimeColumn([i \in DOMAIN Rows |-> Under(Rows[i], dateKey)], g)
    IN  [i \in DOMAIN Rows |->
            [Date |-> Strftime(dates[i]),
             Open |-> ToNumeric(Under(Rows[i], openKey)),
             High |-> ToNumeric(Under(Rows[i], highKey)),
             Low |-> ToNumeric(Under(Rows[i], lowKey)),
             Close |-> ToNumeric(Under(Rows[i], closeKey))]]

(* a row is valid when its date parses and its Close is a number *)
IsValid(rec) == ~IsNa(rec.Date) /\ rec.Close.kind = "num"

ValidRows(reading) == {i \in DOMAIN reading : IsValid(reading[i])}

(* the valid rows, in payload order *)
Retained(reading) == SelectSeq(reading, IsValid)

IsCanonicalDate(v) == v.kind = "str" /\ FormatOf(v.s) = "iso" /\ ParseDate(v.s).ok

(* b holds the records of a, each as often as a does *)
IsPermutation(a, b) ==
    /\ Len(a) = Len(b)
    /\ \E p \in Orders(Len(a)) : \A i \in DOMAIN a : b[i] = a[p[i]]

(* b holds the records of a, and those of equal date in the order of a *)
KeepsTieOrder(a, b) ==
    /\ Len(a) = Len(b)
    /\ \E p \in Orders(Len(a)) :
          /\ \A i \in DOMAIN a : b[i] = a[p[i]]
          /\ \A i, j \in DOMAIN b : (i < j /\ b[i].Date = b[j].Date) => p[i] < p[j]

(* C1: for a non-empty list payload every record the normalizer returns has *)
(* a parsed, canonical Date and a numeric Close, and is the record of an    *)
(* input row whose date parses and whose Close is a number: no other row    *)
(* appears in the output.                                                   *)
C1_DateAndCloseValid ==
    Normalized =>
        \E g \in Builds :
            LET reading == Reading(g)
            IN  \A k \in DOMAIN out.records :
                    /\ IsCanonicalDate(out.records[k].Date)
                    /\ out.records[k].Close.kind = "num"
                    /\ \E i \in ValidRows(reading) : out.records[k] = reading[i]

(* a full payload of which one row is kept, and one with a good date is    *)
(* dropped for its Close                                                     *)
C1_Witness ==
    /\ Normalized
    /\ Len(Rows) = MaxRows
    /\ Len(out.records) = 1
    /\ \E i \in DOMAIN Rows : ~IsNa(Reading(FALSE)[i].Date) /\ IsNa(Reading(FALSE)[i].Close)

(* C2: the records the normalizer returns are in non-descending order of   *)
(* the YYYY-MM-DD text, and that order is the chronological one.            *)
C2_SortedByDate ==
    (Served /\ out.exc = "") =>
        \A k \in 1..(Len(out.records) - 1) :
            /\ StrLe(out.records[k].Date.s, out.records[k + 1].Date.s)
            /\ TimeOf(out.records[k]) <= TimeOf(out.records[k + 1])

(* two rows that arrive latest first and leave earliest first *)
C2_Witness ==
    /\ Normalized
    /\ Len(Rows) = 2
    /\ out.records = <<Reading(FALSE)[2], Reading(FALSE)[1]>>
    /\ StrLt(out.records[1].Date.s, out.records[2].Date.s)

NoDateKey == \A i \in DOMAIN Rows : DATE \notin Labels(Rows[i]) /\ Lower(DATE) \notin Labels(Rows[i])

(* C4: when no row of a non-empty list payload has a key Date or date,     *)
(* every row is dropped and the normalizer returns the empty sequence: it  *)
(* raises nothing and the request is answered.                              *)
C4_NoDateKeyGivesEmpty ==
    (/\ Served
     /\ response.route \in {"planet_json", "planet_csv", "planet_default"}
     /\ upstream.kind = "list" /\ Len(Rows) > 0
     /\ NoDateKey)
    => (out = [exc |-> "", records |-> <<>>] /\ response.status = 200)

(* the casing of a field's key is mixed: some row has the canonical key    *)
(* and row i has the field under the lowercase key only                     *)
LowercaseOnly(i, col) ==
    /\ col \notin Labels(Rows[i])
    /\ Lower(col) \in Labels(Rows[i])
    /\ \E j \in DOMAIN Rows : col \in Labels(Rows[j])

(* the raw value of a row's field under either spelling of the key *)
EitherCase(row, col) ==
    IF col \in Labels(row) THEN Under(row, col) ELSE Under(row, Lower(col))

(* the record of a row when both spellings are merged into one field *)
MergedRecordOf(i) ==
    [Date |-> Strftime(ToDatetime(EitherCase(Rows[i], DATE), "none")),
     Open |-> ToNumeric(EitherCase(Rows[i], OPEN)), High |-> ToNumeric(EitherCase(Rows[i], HIGH)),
     Low |-> ToNumeric(EitherCase(Rows[i], LOW)), Close |-> ToNumeric(EitherCase(Rows[i], CLOSE))]

(* C5 as stated: with mixed casing, a row whose valid date and valid close *)
(* are under the lowercase keys only is in the output with those values.    *)
C5_MixedCaseMerged ==
    Normalized =>
        \A i \in DOMAIN Rows :
            (/\ LowercaseOnly(i, DATE) \/ LowercaseOnly(i, CLOSE)
             /\ IsValid(MergedRecordOf(i)))
            => \E k \in DOMAIN out.records : out.records[k] = MergedRecordOf(i)

(* C5, amended: the two spellings are not merged.  The lowercase key is    *)
(* adopted only when no row of the payload carries the canonical key; when *)
(* some row does, the values under the lowercase key are ignored, and a row *)
(* whose date or close is under the lowercase key only is dropped.          *)
C5_CanonicalKeyWins ==
    Normalized =>
        \E g \in Builds :
            LET reading == Reading(g)
            IN  /\ IsPermutation(Retained(reading), out.records)
                /\ \A i \in DOMAIN Rows :
                      (LowercaseOnly(i, DATE) \/ LowercaseOnly(i, CLOSE))
                      => ~IsValid(reading[i])

(* a payload of a canonical row and a lowercase row, both with good values: *)
(* the canonical one alone is returned                                      *)
C5_Witness ==
    /\ Normalized
    /\ Len(Rows) = 2
    /\ LowercaseOnly(2, DATE) /\ LowercaseOnly(2, CLOSE)
    /\ IsValid(MergedRecordOf(2))
    /\ out.records = <<Reading(FALSE)[1]>>

LowercaseKeys ==
    \A i \in DOMAIN Rows : \A j \in DOMAIN Rows[i] :
        Rows[i][j].k \in {Lower(DATE), Lower(OPEN), Lower(HIGH), Lower(LOW), Lower(CLOSE)}

(* the key spelled as the output spells it *)
Canonical(key) == CHOOSE col \in {DATE, OPEN, HIGH, LOW, CLOSE} : Lower(col) = key

(* the payload with the same values under the canonical-cased keys *)
Capitalized ==
    [kind |-> "list",
     rows |-> [i \in DOMAIN Rows |->
                [j \in DOMAIN Rows[i] |-> Pair(Canonical(Rows[i][j].k), Rows[i][j].v)]]]

(* C7: for a payload whose rows use only the lowercase keys, what the      *)
(* normalizer returns is what it may return for the payload with the same   *)
(* values under the canonical-cased keys: the same records, under the keys  *)
(* Date, Open, High, Low, Close, or the same failure.                       *)
C7_LowercaseSameAsCanonical ==
    (/\ Served
     /\ response.route \in {"planet_json", "planet_csv", "planet_default"}
     /\ upstream.kind = "list" /\ Len(Rows) > 0
     /\ LowercaseKeys)
    => out \in PlanetDataframe(Capitalized)

(* a lowercase payload of two rows with open, high, low and close, returned *)
(* in full                                                                   *)
C7_Witness ==
    /\ Normalized
    /\ LowercaseKeys
    /\ Len(Rows) = 2
    /\ Len(out.records) = 2
    /\ out.records[1].Date # out.records[2].Date
    /\ \A k \in DOMAIN out.records :
          out.records[k].Open.kind = "num" /\ out.records[k].High.kind = "num"

(* the request normalized a payload that is this service's own JSON export *)
Renormalized ==
    /\ Served
    /\ fed
    /\ response.route \in {"planet_json", "planet_csv", "planet_default"}

DistinctDates(recs) ==
    \A i, j \in DOMAIN recs : recs[i].Date = recs[j].Date => i = j

EmptyPayload ==
    \/ upstream.kind \in {"object", "string", "number", "null"}
    \/ upstream.kind = "list" /\ Len(Rows) = 0

(* C9: for a payload that is an empty list or not a list the normalizer    *)
(* returns the empty sequence and raises nothing, and the JSON, CSV and     *)
(* default exports answer 200 with an empty array, or with the header line  *)
(* alone.                                                                    *)
C9_EmptyPayloadGivesEmpty ==
    (/\ Served
     /\ response.route \in {"planet_json", "planet_csv", "planet_default"}
     /\ EmptyPayload)
    => /\ out = [exc |-> "", records |-> <<>>]
       /\ response.status = 200
       /\ response.route = "planet_csv" => response.csv = <<Header>>
       /\ response.route # "planet_csv" => response.json = <<>> /\ response.csv = <<>>

(* the CSV export of a payload that is JSON null *)
C9_Witness ==
    /\ Served
    /\ upstream.kind = "null"
    /\ response.route = "planet_csv"
    /\ response.status = 200
    /\ response.csv = <<Header>>

(* /history was asked with integers for from and to, and the normalizer    *)
(* returned                                                                  *)
HistoryAnswered ==
    /\ Served
    /\ response.route = "history"
    /\ IsDigits(FromArg(args.from)) /\ IsDigits(ToArg(args.to))
    /\ out.exc = ""

(* the positions of the normalized records whose time is within from..to   *)
Within ==
    {i \in DOMAIN out.records :
        /\ BigLe(ParseBig(FromArg(args.from)), Big(TimeOf(out.records[i])))
        /\ BigLe(Big(TimeOf(out.records[i])), ParseBig(ToArg(args.to)))}

(* C10: the /history response holds exactly the normalized records whose   *)
(* time, midnight UTC of the date in seconds, is within from..to, both      *)
(* bounds included and 0 and 9999999999 when absent, in normalized order:   *)
(* t, o, h, l and c have one length and hold at each index the time, Open,  *)
(* High, Low and Close of one record.                                       *)
C10_HistoryFiltersInclusive ==
    HistoryAnswered =>
        LET within == Within
            place(i) == Cardinality({j \in within : j <= i})
        IN  /\ response.status = 200 /\ response.s = "ok"
            /\ Len(response.t) = Cardinality(within)
            /\ Len(response.o) = Len(response.t) /\ Len(response.h) = Len(response.t)
            /\ Len(response.l) = Len(response.t) /\ Len(response.c) = Len(response.t)
            /\ \A i \in within :
                  /\ response.t[place(i)] = TimeOf(out.records[i])
                  /\ response.o[place(i)] = out.records[i].Open
                  /\ response.h[place(i)] = out.records[i].High
                  /\ response.l[place(i)] = out.records[i].Low
                  /\ response.c[place(i)] = out.records[i].Close

(* from absent and to = 0 on records of 1970-01-01 and 1994-01-02: the     *)
(* record at time 0, which equals both bounds, is the one returned          *)
C10_Witness ==
    /\ HistoryAnswered
    /\ args = [from |-> <<>>, to |-> <<"0">>]
    /\ Len(out.records) = 2
    /\ TimeOf(out.records[2]) = 757468800
    /\ response.t = <<0>>
    /\ response.c = <<out.records[1].Close>>

====
